---- MODULE Spec2Model ----
(***************************************************************************)
(* Student-Assistance.py: the task store, the reminder loop of the task    *)
(* page, the iCalendar and PDF exports, and the notes' attachment store.   *)
(*                                                                         *)
(* Time is counted in whole hours from 2025-03-01T00:00:00 (naive UTC).    *)
(* Text is a sequence of tokens (runs of characters); a timestamp is       *)
(* stored as text, as the code stores it, and parsed back when read.       *)
(***************************************************************************)
EXTENDS Integers, Sequences, FiniteSets, TLC

VARIABLES
    tasks,      \* the rows of table tasks
    seq,        \* sqlite_sequence of table tasks (AUTOINCREMENT)
    born,       \* history: the ids given to the task rows ever inserted, in order
    clock,      \* dt.datetime.utcnow(), in hours
    viewer,     \* st.session_state.user_id of the run of page_tasks
    listing,    \* page_tasks: the local tasks (the rows list_tasks returned)
    shown,      \* page_tasks: the reminder loop has run over listing
    upcoming,   \* page_tasks: the local upcoming
    ics,        \* the result of tasks_to_ics(listing)
    notes,      \* the rows of table notes
    noteSeq,    \* sqlite_sequence of table notes
    blobs,      \* the files under UPLOAD_DIR
    blobSeq,    \* the upload tokens used so far
    pdf         \* the result of notes_to_pdf

vars == <<tasks, seq, born, clock, viewer, listing, shown, upcoming, ics,
          notes, noteSeq, blobs, blobSeq, pdf>>
taskVars == <<tasks, seq, born>>
pageVars == <<listing, shown, upcoming, ics>>
noteVars == <<notes, noteSeq, blobs, blobSeq, pdf>>

\* ---------------------------------------------------------------- bounds

MaxTasks == 2       \* task rows in a list, and ids 1..MaxTasks in a drawn list
MaxClock == 3       \* the store's clock runs 0..MaxClock: that many writes

\* ------------------------------------------------------------ constants

HorizonDays == 7    \* dt.timedelta(days=7)
MaxLeadHours == 168 \* number_input(max_value=168)

\* ----------------------------------------------------------------- text

TwoDigit == <<"00", "01", "02", "03", "04", "05", "06", "07", "08", "09",
              "10", "11", "12", "13", "14", "15", "16", "17", "18", "19",
              "20", "21", "22", "23", "24", "25", "26", "27", "28", "29",
              "30", "31">>

\* %d / %H: a number 0..31 as two digits
DD(n) == TwoDigit[n + 1]

\* the number a two-digit token stands for
UnDD(tok) == CHOOSE n \in 0..31 : DD(n) = tok

DayTokens == {DD(n) : n \in 1..31}
HourTokens == {DD(n) : n \in 0..23}

Decimal == <<"1", "2", "3", "4", "5", "6", "7", "8", "9">>

\* str(n) of an id 1..9
Str(n) == Decimal[n]

\* a nullable TEXT column / str | None
NULL == [null |-> TRUE, text |-> <<>>]
Text(s) == [null |-> FALSE, text |-> s]

\* a nullable INTEGER / int | None
NoneInt == [null |-> TRUE, n |-> 0]
Int_(n) == [null |-> FALSE, n |-> n]

\* Python truthiness of a str | None: None and "" are falsy
Truthy(v) == ~v.null /\ v.text # <<>>

\* `x or 0` of an int | None
OrZero(v) == IF v.null \/ v.n = 0 THEN 0 ELSE v.n

\* day of month and hour of day of a datetime
DayOf(t) == (t \div 24) + 1
HourOf(t) == t % 24

\* datetime.isoformat(): "2025-03-DDTHH:00:00"
isoformat(t) == <<"2025-03-", DD(DayOf(t)), "T", DD(HourOf(t)), ":00:00">>

\* date.isoformat(): "2025-03-DD"
date_isoformat(t) == <<"2025-03-", DD(DayOf(t))>>

\* datetime.fromisoformat(s): ok = FALSE stands for ValueError
fromisoformat(s) ==
    IF /\ Len(s) = 5
       /\ s[1] = "2025-03-" /\ s[2] \in DayTokens
       /\ s[3] = "T" /\ s[4] \in HourTokens /\ s[5] = ":00:00"
    THEN [ok |-> TRUE, t |-> (UnDD(s[2]) - 1) * 24 + UnDD(s[4])]
    ELSE IF Len(s) = 2 /\ s[1] = "2025-03-" /\ s[2] \in DayTokens
    THEN [ok |-> TRUE, t |-> (UnDD(s[2]) - 1) * 24]
    ELSE [ok |-> FALSE, t |-> 0]

\* dt_obj.strftime('%Y%m%dT%H%M%S'): "202503DDTHH0000"
strftime_basic(t) == <<"202503", DD(DayOf(t)), "T", DD(HourOf(t)), "0000">>

\* ------------------------------------------------- page_tasks: reminders

\* dt.timedelta(days=7), in hours
Horizon == HorizonDays * 24

\* remind_time = dt_obj - dt.timedelta(hours=remind_before or 0)
remind_time_wrong(dt_obj, remind_before) == dt_obj + OrZero(remind_before)
remind_time_of(dt_obj, remind_before) == dt_obj - OrZero(remind_before)

\* remind_time > now and (remind_time - now) < dt.timedelta(days=7)
is_upcoming_wrong(remind_time, now) ==
    remind_time >= now /\ (remind_time - now) < Horizon
is_upcoming(remind_time, now) ==
    remind_time > now /\ (remind_time - now) < Horizon

\* one pass of the loop body's `if due_date:` block over a row
reminder_step(row, now, acc) ==
    IF ~Truthy(row.due_date) THEN acc
    ELSE LET p == fromisoformat(row.due_date.text) IN
         IF ~p.ok THEN acc                         \* except Exception: pass
         ELSE LET remind_time == remind_time_of(p.t, row.remind) IN
              IF is_upcoming(remind_time, now)
              THEN Append(acc, <<row.task, p.t, remind_time>>)
              ELSE acc

\* the for loop of page_tasks, from the row at index i on; the first
\* definition has the try around the whole loop instead of inside its body,
\* so the first due date that does not parse ends the loop
RECURSIVE reminder_loop_aborting(_, _, _, _)
reminder_loop_aborting(rows, i, now, acc) ==
    IF i > Len(rows) THEN acc
    ELSE IF Truthy(rows[i].due_date) /\ ~fromisoformat(rows[i].due_date.text).ok
         THEN acc
         ELSE reminder_loop_aborting(rows, i + 1, now,
                                     reminder_step(rows[i], now, acc))
RECURSIVE reminder_loop(_, _, _, _)
reminder_loop(rows, i, now, acc) ==
    IF i > Len(rows) THEN acc
    ELSE reminder_loop(rows, i + 1, now, reminder_step(rows[i], now, acc))

\* upcoming, as page_tasks leaves it after the loop
page_upcoming(rows, now) == reminder_loop(rows, 1, now, <<>>)

\* ---------------------------------------------------------- tasks_to_ics

\* sep.join(lines)
RECURSIVE join(_, _)
join(sep, lines) ==
    IF lines = <<>> THEN <<>>
    ELSE IF Len(lines) = 1 THEN lines[1]
    ELSE lines[1] \o sep \o join(sep, Tail(lines))

\* uid = f"task-{tid}@student-assist"
task_uid(tid) == <<"task-", Str(tid), "@student-assist">>

\* the six lines one dated task adds
vevent_lines(row, dt_obj) ==
    LET dtstamp == strftime_basic(dt_obj) IN
    << <<"BEGIN:VEVENT">>,
       <<"UID:">> \o task_uid(row.id),
       <<"DTSTAMP:">> \o dtstamp \o <<"Z">>,
       <<"DTSTART:">> \o dtstamp \o <<"Z">>,
       <<"SUMMARY:">> \o row.task,
       <<"END:VEVENT">> >>

\* the loop body of tasks_to_ics over one row: ok = FALSE stands for an
\* exception leaving the function
ics_step_unguarded(row, acc) ==
    IF ~acc.ok THEN acc
    ELSE IF ~Truthy(row.due_date) THEN acc
    ELSE LET p == fromisoformat(row.due_date.text) IN
         IF ~p.ok THEN [ok |-> FALSE, lines |-> <<>>]
         ELSE [ok |-> TRUE, lines |-> acc.lines \o vevent_lines(row, p.t)]
ics_step(row, acc) ==
    IF ~acc.ok THEN acc
    ELSE IF ~Truthy(row.due_date) THEN acc                    \* continue
    ELSE LET p == fromisoformat(row.due_date.text) IN
         IF ~p.ok THEN acc                   \* except Exception: continue
         ELSE [ok |-> TRUE, lines |-> acc.lines \o vevent_lines(row, p.t)]

RECURSIVE ics_loop(_, _, _)
ics_loop(rows, i, acc) ==
    IF i > Len(rows) THEN acc
    ELSE ics_loop(rows, i + 1, ics_step(rows[i], acc))

\* the list lines, as tasks_to_ics holds it before the join
ics_lines(rows) ==
    LET head == << <<"BEGIN:VCALENDAR">>, <<"VERSION:2.0">>,
                   <<"PRODID:-//StudentAssistance//EN">> >>
        r == ics_loop(rows, 1, [ok |-> TRUE, lines |-> head])
    IN  IF r.ok THEN [ok |-> TRUE, lines |-> Append(r.lines, <<"END:VCALENDAR">>)]
        ELSE r

\* tasks_to_ics(tasks): "".join(lines).encode(), or raised; the bytes are
\* the tokens' characters, all ASCII, one byte each
NoIcs == [state |-> "none", bytes |-> <<>>]
tasks_to_ics(rows) ==
    LET r == ics_lines(rows) IN
    IF r.ok THEN [state |-> "bytes", bytes |-> join(<<>>, r.lines)]
    ELSE [state |-> "raised", bytes |-> <<>>]

\* ------------------------------------------- the functions on drawn lists

Descs == {<<"Essay">>, <<"Lab">>}

\* 2025-03-10T09:00:00, the due time of the drawn rows
DueT == 9 * 24 + 9

\* (due_date, remind_before_hours) of the drawn rows: absent, empty and
\* malformed dates, a date-time with several lead times, and a bare date
DrawnDues ==
    { <<NULL, Int_(0)>>,
      <<Text(<<>>), Int_(0)>>,
      <<Text(<<"2025-03-", "32", "T", "09", ":00:00">>), Int_(2)>>,
      <<Text(isoformat(DueT)), Int_(0)>>,
      <<Text(isoformat(DueT)), Int_(2)>>,
      <<Text(isoformat(DueT)), Int_(0 - 2)>>,
      <<Text(isoformat(DueT)), NoneInt>>,
      <<Text(date_isoformat(DueT)), Int_(0)>> }

DrawnRows ==
    { [id |-> i, task |-> d, due_date |-> dl[1], remind |-> dl[2], done |-> 0,
       created_at |-> isoformat(0), updated_at |-> isoformat(0)] :
      i \in 1..MaxTasks, d \in Descs, dl \in DrawnDues }

\* lists of at most MaxTasks rows with distinct ids, in any order
DrawnLists ==
    UNION { { l \in [1..n -> DrawnRows] :
                \A i, j \in 1..n : i # j => l[i].id # l[j].id } :
            n \in 0..MaxTasks }

\* utcnow() of the drawn runs: 03-03T07:00, 03-03T09:00, 03-08T09:00,
\* 03-10T07:00, 03-10T08:00
DrawnNows == {2 * 24 + 7, 2 * 24 + 9, 7 * 24 + 9, 9 * 24 + 7, 9 * 24 + 8}

InitPage ==
    /\ tasks = {} /\ seq = 0 /\ born = <<>>
    /\ clock \in DrawnNows
    /\ viewer = 1
    /\ listing \in DrawnLists
    /\ shown = FALSE /\ upcoming = <<>> /\ ics = NoIcs
    /\ notes = {} /\ noteSeq = 0 /\ blobs = {} /\ blobSeq = 0
    /\ pdf = [state |-> "none", doc |-> <<>>]

\* the reminder loop of page_tasks over the list
ApplyReminders ==
    /\ ~shown
    /\ shown' = TRUE
    /\ upcoming' = page_upcoming(listing, clock)
    /\ UNCHANGED <<listing, ics, clock, viewer, taskVars, noteVars>>

\* tasks_to_ics over the list
ApplyIcs ==
    /\ ics = NoIcs
    /\ ics' = tasks_to_ics(listing)
    /\ UNCHANGED <<listing, shown, upcoming, clock, viewer, taskVars, noteVars>>

NextPage == ApplyReminders \/ ApplyIcs

SpecPage == InitPage /\ [][NextPage]_vars

\* -------------------------------------------- claims on page_tasks' loop

Range(f) == {f[i] : i \in DOMAIN f}

\* the row has a due date that parses
Dated(row) == Truthy(row.due_date) /\ fromisoformat(row.due_date.text).ok

DueAt(row) == fromisoformat(row.due_date.text).t

LeadHours(row) == IF row.remind.null THEN 0 ELSE row.remind.n

\* dueAt - reminderLeadHours hours
ReminderAt(row) == DueAt(row) - LeadHours(row)

\* now < R < now + H
StrictlyWithin(r, now) == now < r /\ r < now + HorizonDays * 24

PlanEntry(row) == <<row.task, DueAt(row), ReminderAt(row)>>

RECURSIVE MapEntries(_)
MapEntries(rows) ==
    IF rows = <<>> THEN <<>>
    ELSE <<PlanEntry(Head(rows))>> \o MapEntries(Tail(rows))

KeepUpcoming(row) == Dated(row) /\ StrictlyWithin(ReminderAt(row), clock)

\* C1: once the reminder loop has run, a dated row has its entry among the
\* upcoming reminders exactly when now < R < now + 7 days, R being its
\* reminder time: never for R <= now, never for R >= now + 7 days
C1_UpcomingIffStrictlyWithin ==
    shown =>
        \A i \in 1..Len(listing) :
            Dated(listing[i]) =>
                ( PlanEntry(listing[i]) \in Range(upcoming)
                  <=> StrictlyWithin(ReminderAt(listing[i]), clock) )

\* the loop has run over a list holding a row with R = now, passed over,
\* and a row with R = now + 2 hours, retained
C1_Witness ==
    /\ shown
    /\ \E i, j \in 1..Len(listing) :
          /\ Dated(listing[i]) /\ ReminderAt(listing[i]) = clock
          /\ Dated(listing[j]) /\ ReminderAt(listing[j]) = clock + 2
    /\ Len(upcoming) = 1

\* a row whose reminder time is exactly now + 7 days has been passed over
C1_WitnessFarEdge ==
    /\ shown
    /\ \E i \in 1..Len(listing) :
          Dated(listing[i]) /\ ReminderAt(listing[i]) = clock + HorizonDays * 24
    /\ upcoming = <<>>

\* C2: the upcoming reminders are exactly the dated rows whose reminder time
\* passes the upcoming test, in the order of the list, each as
\* (description, dueAt, dueAt - lead hours)
C2_UpcomingIsOrderedSubsequence ==
    shown => upcoming = MapEntries(SelectSeq(listing, KeepUpcoming))

\* two rows retained, the one with the larger id first, around none or more
\* rows passed over
C2_Witness ==
    /\ shown
    /\ Len(upcoming) = 2
    /\ listing[1].id > listing[2].id
    /\ upcoming[1][3] # upcoming[2][3]

\* C10: a row with no due date or with a negative lead time yields no
\* reminder, so no reminder is later than its due time
C10_NegativeLeadYieldsNoReminder ==
    shown =>
        /\ upcoming = MapEntries(SelectSeq(listing,
                LAMBDA row : KeepUpcoming(row) /\ LeadHours(row) >= 0))
        /\ \A k \in 1..Len(upcoming) : upcoming[k][3] <= upcoming[k][2]

\* after the loop: every retained row beside a row passed over has its entry,
\* and every entry is the entry of a dated row
SkippedRowsLeaveOthersKept ==
    shown =>
        /\ \A i, j \in 1..Len(listing) :
              ( ~Dated(listing[i]) /\ j # i /\ KeepUpcoming(listing[j]) )
                  => PlanEntry(listing[j]) \in Range(upcoming)
        /\ \A k \in 1..Len(upcoming) :
              \E j \in 1..Len(listing) :
                  Dated(listing[j]) /\ upcoming[k] = PlanEntry(listing[j])
        /\ Len(upcoming) <= Len(SelectSeq(listing, Dated))

\* C11: the reminder loop passes over every row whose due date is absent or
\* does not parse and still ends with a list: each row before or after such
\* a row that has a due date and passes the upcoming test has its entry
\* among the upcoming reminders, no entry comes from a row passed over, and
\* the loop leaves the listed rows, those without a due date included, as
\* they were
C11_SkipsUnusableDueDates ==
    [] SkippedRowsLeaveOthersKept /\ [][listing' = listing]_vars

\* the loop has run over a due date that does not parse followed by a row
\* that is retained
C11_Witness ==
    /\ shown
    /\ Len(listing) = 2
    /\ Truthy(listing[1].due_date) /\ ~Dated(listing[1])
    /\ KeepUpcoming(listing[2])
    /\ upcoming = <<PlanEntry(listing[2])>>

\* the loop has run over a retained row followed by a row with no due date
C11_WitnessAbsentAfter ==
    /\ shown
    /\ Len(listing) = 2
    /\ KeepUpcoming(listing[1])
    /\ listing[2].due_date = NULL
    /\ upcoming = <<PlanEntry(listing[1])>>

\* ------------------------------------------------ claims on tasks_to_ics

\* the content lines of an iCalendar stream: the text between line breaks
RECURSIVE ContentLinesFrom(_, _, _)
ContentLinesFrom(b, i, cur) ==
    IF i > Len(b) THEN (IF cur = <<>> THEN <<>> ELSE <<cur>>)
    ELSE IF b[i] = "\r\n" THEN <<cur>> \o ContentLinesFrom(b, i + 1, <<>>)
    ELSE ContentLinesFrom(b, i + 1, Append(cur, b[i]))

ContentLines(b) == ContentLinesFrom(b, 1, <<>>)

\* the VEVENT blocks of a list of content lines, as (first, last) line
EventBlocks(L) ==
    { ij \in (1..Len(L)) \X (1..Len(L)) :
        /\ ij[1] < ij[2]
        /\ L[ij[1]] = <<"BEGIN:VEVENT">>
        /\ L[ij[2]] = <<"END:VEVENT">>
        /\ \A k \in (ij[1] + 1)..(ij[2] - 1) :
              L[k] # <<"BEGIN:VEVENT">> /\ L[k] # <<"END:VEVENT">> }

\* the value of the first content line named name inside a block
PropertyOf(L, ij, name) ==
    LET ks == {k \in (ij[1] + 1)..(ij[2] - 1) : L[k] # <<>> /\ L[k][1] = name} IN
    IF ks = {} THEN <<>>
    ELSE Tail(L[CHOOSE k \in ks : \A m \in ks : k <= m])

ParsedTriples(b) ==
    LET L == ContentLines(b) IN
    { <<PropertyOf(L, ij, "UID:"), PropertyOf(L, ij, "DTSTART:"),
        PropertyOf(L, ij, "SUMMARY:")>> : ij \in EventBlocks(L) }

\* (UID, DTSTART as YYYYMMDDThhmmssZ, SUMMARY) of the dated rows
InputTriples(rows) ==
    { << <<"task-", Str(rows[i].id), "@student-assist">>,
         <<"202503", DD(DayOf(DueAt(rows[i]))), "T",
           DD(HourOf(DueAt(rows[i]))), "0000", "Z">>,
         rows[i].task >> : i \in {j \in 1..Len(rows) : Dated(rows[j])} }

\* C3: an export equals a second export of the same list, and its content
\* lines parse back to the (UID, DTSTART, SUMMARY) triples of the dated rows
C3_ExportRoundTrips ==
    ics.state # "none" =>
        /\ ics = tasks_to_ics(listing)
        /\ ics.state = "bytes"
        /\ ParsedTriples(ics.bytes) = InputTriples(listing)

\* C4: with no dated row the export is the four content lines of an empty
\* calendar, in order
C4_EmptyCalendarIsComplete ==
    (ics.state # "none" /\ \A i \in 1..Len(listing) : ~Dated(listing[i])) =>
        /\ ics.state = "bytes"
        /\ ContentLines(ics.bytes) =
              << <<"BEGIN:VCALENDAR">>, <<"VERSION:2.0">>,
                 <<"PRODID:-//StudentAssistance//EN">>, <<"END:VCALENDAR">> >>

\* the ids named after each BEGIN:VEVENT mark of the bytes, in order
RECURSIVE EventIdsFrom(_, _)
EventIdsFrom(b, i) ==
    IF i > Len(b) THEN <<>>
    ELSE IF b[i] = "BEGIN:VEVENT" /\ i + 3 <= Len(b)
              /\ b[i + 1] = "UID:" /\ b[i + 2] = "task-"
         THEN <<b[i + 3]>> \o EventIdsFrom(b, i + 1)
         ELSE EventIdsFrom(b, i + 1)

Marks(b, tok) == {i \in 1..Len(b) : b[i] = tok}

RECURSIVE DatedIds(_)
DatedIds(rows) ==
    IF rows = <<>> THEN <<>>
    ELSE (IF Dated(Head(rows)) THEN <<Str(Head(rows).id)>> ELSE <<>>)
         \o DatedIds(Tail(rows))

\* C5: the export never raises; the rows without a parsable due date add
\* nothing, every other row adds one VEVENT block, in the order of the list
C5_OneEventPerDatedRow ==
    ics.state # "none" =>
        /\ ics.state = "bytes"
        /\ EventIdsFrom(SelectSeq(ics.bytes, LAMBDA tok : tok # "\r\n"), 1)
              = DatedIds(listing)
        /\ Cardinality(Marks(ics.bytes, "BEGIN:VEVENT")) = Len(DatedIds(listing))
        /\ Cardinality(Marks(ics.bytes, "END:VEVENT")) = Len(DatedIds(listing))

\* an export of a list with a malformed row ahead of a dated row
C5_Witness ==
    /\ ics.state = "bytes"
    /\ Len(listing) = 2
    /\ ~listing[1].due_date.null /\ ~Dated(listing[1])
    /\ listing[1].due_date.text # <<>>
    /\ Dated(listing[2])

\* ------------------------------------------------------- the task store

Users == {1, 2}

Max(S) == CHOOSE x \in S : \A y \in S : y <= x

\* the id INSERT gives a new row of a table declared INTEGER PRIMARY KEY
\* AUTOINCREMENT: one more than the largest id the table ever held
next_rowid_reused(rows, s) == Max({r.id : r \in rows} \cup {0}) + 1
next_rowid(rows, s) == Max({r.id : r \in rows} \cup {s}) + 1

\* add_task(user_id, task, due_date, remind_before_hours) at time now: the
\* rows after the INSERT
add_task(rows, s, user_id, task, due_date, remind_before_hours, now) ==
    rows \cup { [id |-> next_rowid(rows, s), user_id |-> user_id, task |-> task,
                 due_date |-> due_date,
                 remind |-> Int_(OrZero(remind_before_hours)), done |-> 0,
                 created_at |-> isoformat(now), updated_at |-> isoformat(now)] }

\* toggle_task(task_id, done) at time now: UPDATE ... WHERE id=?; the first
\* definition is the UPDATE without its WHERE
toggle_task_unkeyed(rows, task_id, done, now) ==
    { [r EXCEPT !.done = IF done THEN 1 ELSE 0, !.updated_at = isoformat(now)] :
      r \in rows }
toggle_task(rows, task_id, done, now) ==
    { IF r.id = task_id
      THEN [r EXCEPT !.done = IF done THEN 1 ELSE 0, !.updated_at = isoformat(now)]
      ELSE r : r \in rows }

\* delete_task(task_id): DELETE ... WHERE id=?
delete_task(rows, task_id) == {r \in rows : r.id # task_id}

\* the order of two tokens of ISO texts at the same place
TokRank(tok) == IF tok \in DayTokens \cup HourTokens \cup {"00"} THEN UnDD(tok) ELSE 0

\* SQLite's comparison of two texts, a < b
TextLess(a, b) ==
    LET n == IF Len(a) < Len(b) THEN Len(a) ELSE Len(b)
        diff == {i \in 1..n : a[i] # b[i]}
    IN  IF diff = {} THEN Len(a) < Len(b)
        ELSE LET i == CHOOSE k \in diff : \A m \in diff : k <= m
             IN  TokRank(a[i]) < TokRank(b[i])

\* COALESCE(due_date, '')
coalesce_due_last(v) ==
    IF v.null THEN isoformat(31 * 24 - 1) \o <<"~">> ELSE v.text
coalesce_due(v) == IF v.null THEN <<>> ELSE v.text

\* ORDER BY done, COALESCE(due_date,''), updated_at DESC: r1 sorts before r2
order_before(r1, r2) ==
    \/ r1.done < r2.done
    \/ /\ r1.done = r2.done
       /\ TextLess(coalesce_due(r1.due_date), coalesce_due(r2.due_date))
    \/ /\ r1.done = r2.done
       /\ coalesce_due(r1.due_date) = coalesce_due(r2.due_date)
       /\ TextLess(r2.updated_at, r1.updated_at)

\* the seven columns list_tasks selects
selected(r) == [id |-> r.id, task |-> r.task, due_date |-> r.due_date,
                remind |-> r.remind, done |-> r.done,
                created_at |-> r.created_at, updated_at |-> r.updated_at]

\* list_tasks(user_id): the lists fetchall() may return, the rows that tie
\* in the ORDER BY in either order
list_tasks(rows, user_id) ==
    LET mine == {r \in rows : r.user_id = user_id}
        n == Cardinality(mine)
    IN  { [i \in 1..n |-> selected(l[i])] :
            l \in { m \in [1..n -> mine] :
                      /\ \A i, j \in 1..n : i # j => m[i] # m[j]
                      /\ \A i, j \in 1..n : i < j => ~order_before(m[j], m[i]) } }

\* --------------------------------------------- the task page's handlers

\* what the form of page_tasks can submit: a date or none, a time, and a
\* lead time within number_input's 0..168
FormTasks == {<<"Essay">>}
FormDates == {NULL, Text(date_isoformat(1 * 24))}
FormTimes == {9}
\* number_input(min_value=0, max_value=168, value=0): the ends of the range;
\* the first definition is the input without its max_value
FormLeads_unchecked == {0, MaxLeadHours + 1}
FormLeads == {0, MaxLeadHours}

\* due_str of the submit handler: None, or combine(due, time_val).isoformat()
due_str(due, time_val) ==
    IF due.null THEN NULL
    ELSE Text(isoformat(fromisoformat(due.text).t + time_val))

\* utcnow() of a run that writes: later than that of every run before it
\* (the stored texts keep microseconds), and at most MaxClock
LaterNows == {t \in {clock + 1} : t <= MaxClock}

\* a run of page_tasks from list_tasks on: the list, the reminder loop (an
\* empty list ends the run before it, with nothing upcoming), and the export
\* when its button was the one pressed
Render(rows, u, now, export) ==
    /\ viewer' = u
    /\ listing' \in list_tasks(rows, u)
    /\ shown' = TRUE
    /\ upcoming' = page_upcoming(listing', now)
    /\ IF export
       THEN upcoming' # <<>> /\ ics' = tasks_to_ics(listing')
       ELSE ics' = NoIcs

Init ==
    /\ tasks = {} /\ seq = 0 /\ born = <<>>
    /\ clock = 0
    /\ viewer = 1
    /\ listing = <<>> /\ shown = FALSE /\ upcoming = <<>> /\ ics = NoIcs
    /\ notes = {} /\ noteSeq = 0 /\ blobs = {} /\ blobSeq = 0
    /\ pdf = [state |-> "none", doc |-> <<>>]

\* the form is submitted with a task text: add_task, then st.rerun()
RunSubmit ==
    \E u \in Users, t \in FormTasks, due \in FormDates, time_val \in FormTimes,
       remind_before \in FormLeads, now \in LaterNows :
        /\ clock' = now
        /\ tasks' = add_task(tasks, seq, u, t, due_str(due, time_val),
                             Int_(remind_before), now)
        /\ seq' = next_rowid(tasks, seq)
        /\ born' = Append(born, next_rowid(tasks, seq))
        /\ Render(tasks', u, now, FALSE)
        /\ UNCHANGED noteVars

\* a checkbox of the list is flipped: the run lists the rows, and in the
\* loop calls toggle_task for that row
RunToggle ==
    \E u \in Users, now \in LaterNows :
        \E l \in list_tasks(tasks, u) :
            \E i \in 1..Len(l) :
                /\ clock' = now
                /\ tasks' = toggle_task(tasks, l[i].id, l[i].done = 0, now)
                /\ viewer' = u
                /\ listing' = l
                /\ shown' = TRUE
                /\ upcoming' = page_upcoming(l, now)
                /\ ics' = NoIcs
                /\ UNCHANGED <<seq, born, noteVars>>

\* a Delete button of the list is pressed: delete_task, then st.rerun()
RunDelete ==
    \E u \in Users, now \in LaterNows :
        \E r \in {x \in tasks : x.user_id = u} :
            /\ clock' = now
            /\ tasks' = delete_task(tasks, r.id)
            /\ Render(tasks', u, now, FALSE)
            /\ UNCHANGED <<seq, born, noteVars>>

\* the page is opened or refreshed
RunView ==
    \E u \in Users :
        /\ Render(tasks, u, clock, FALSE)
        /\ UNCHANGED <<taskVars, clock, noteVars>>

\* "Export reminders to calendar (.ics)" is pressed: shown only when some
\* reminder is upcoming
RunExport ==
    \E u \in Users :
        /\ Render(tasks, u, clock, TRUE)
        /\ UNCHANGED <<taskVars, clock, noteVars>>

Next == RunSubmit \/ RunToggle \/ RunDelete \/ RunView \/ RunExport

Spec == Init /\ [][Next]_vars

\* ------------------------------------------------ claims on the task store

\* the due time a row is ordered by, a row with no due date ahead of all
DueFirst(row) == IF row.due_date.null THEN 0 - 1 ELSE DueAt(row)

\* the due time a row is ordered by, a row with no due date behind all
DueLast(row) == IF row.due_date.null THEN 31 * 24 ELSE DueAt(row)

UpdatedAt(row) == fromisoformat(row.updated_at).t

\* a may stand ahead of b: done ascending, then the due key ascending, then
\* updatedAt descending
InOrder(a, b, DueKey(_)) ==
    \/ a.done < b.done
    \/ /\ a.done = b.done
       /\ \/ DueKey(a) < DueKey(b)
          \/ DueKey(a) = DueKey(b) /\ UpdatedAt(a) >= UpdatedAt(b)

ListedIds == {listing[i].id : i \in 1..Len(listing)}

RECURSIVE UidsFrom(_, _)
UidsFrom(b, i) ==
    IF i > Len(b) THEN <<>>
    ELSE IF b[i] = "UID:" /\ i + 3 <= Len(b)
         THEN <<SubSeq(b, i + 1, i + 3)>> \o UidsFrom(b, i + 1)
         ELSE UidsFrom(b, i + 1)

RECURSIVE UidsOfIds(_)
UidsOfIds(rows) ==
    IF rows = <<>> THEN <<>>
    ELSE (IF Dated(Head(rows))
          THEN << <<"task-", Str(Head(rows).id), "@student-assist">> >>
          ELSE <<>>) \o UidsOfIds(Tail(rows))

\* the ids of the rows ever inserted differ, the rows in the table carry
\* ids given at an insert, and an export names each dated row by its id
IdsNeverShared ==
    /\ \A i, j \in 1..Len(born) : i # j => born[i] # born[j]
    /\ \A r \in tasks : r.id \in Range(born)
    /\ \A r, q \in tasks : r.id = q.id => r = q
    /\ ics.state = "bytes" => UidsFrom(ics.bytes, 1) = UidsOfIds(listing)

\* a row (known by its creation time, which no two rows share) keeps its id
IdsKept ==
    \A r \in tasks, q \in tasks' :
        r.created_at = q.created_at => r.id = q.id /\ r.user_id = q.user_id

\* C7: a task's UID is made of its id alone, no two task rows ever inserted
\* share an id, also when one was deleted before the other was added, and
\* no operation changes the id of a row
C7_UidStableAndUnique == []IdsNeverShared /\ [][IdsKept]_vars

\* an export after an insert, a delete and another insert
C7_Witness ==
    /\ ics.state = "bytes"
    /\ Len(born) >= 2
    /\ \E i \in 1..Len(born) : \A r \in tasks : r.id # born[i]
    /\ \E r \in tasks : r.id = born[Len(born)] /\ r.id \in ListedIds

\* C12: in every state the handlers reach by add_task, toggle_task and
\* delete_task, every stored row has a lead time, and it is at least 0 and
\* at most 168 hours; add_task given no lead time stores 0
C12_StoredLeadWithinRange ==
    /\ \A r \in tasks :
          ~r.remind.null /\ 0 <= r.remind.n /\ r.remind.n <= MaxLeadHours
    /\ \A u \in Users, t \in FormTasks, due \in FormDates :
          \A r \in add_task(tasks, seq, u, t, due, NoneInt, clock) \ tasks :
              r.remind = Int_(0)

\* a row stored with the largest lead time, and a row stored with lead time
\* 0 and since toggled
C12_Witness ==
    /\ \E r \in tasks : r.remind = Int_(MaxLeadHours)
    /\ \E r \in tasks :
          r.remind = Int_(0) /\ r.done = 1 /\ r.updated_at # r.created_at

\* ------------------------------------------- toggle_task on drawn stores

\* rows as add_task leaves them at 2025-03-01T00:00, without a due date and
\* with one
DrawnStoreRows ==
    { [id |-> i, user_id |-> u, task |-> t, due_date |-> dl[1],
       remind |-> Int_(dl[2]), done |-> 0,
       created_at |-> isoformat(0), updated_at |-> isoformat(0)] :
      i \in 1..MaxTasks, u \in Users, t \in FormTasks,
      dl \in { <<NULL, 0>>, <<Text(isoformat(1 * 24 + 9)), MaxLeadHours>> } }

\* tables of at most MaxTasks rows: id is the primary key
DrawnStores ==
    { S \in SUBSET DrawnStoreRows : \A r, q \in S : r.id = q.id => r = q }

\* the ids toggle_task is called with: those handed out, and one never used
ToggleIds == 1..(MaxTasks + 1)

InitToggle ==
    /\ tasks \in DrawnStores
    /\ seq = MaxTasks /\ born = [i \in 1..MaxTasks |-> i]
    /\ clock = 0
    /\ viewer = 1
    /\ listing = <<>> /\ shown = FALSE /\ upcoming = <<>> /\ ics = NoIcs
    /\ notes = {} /\ noteSeq = 0 /\ blobs = {} /\ blobSeq = 0
    /\ pdf = [state |-> "none", doc |-> <<>>]

\* toggle_task(task_id, done)
ApplyToggle ==
    \E task_id \in ToggleIds, done \in BOOLEAN, now \in LaterNows :
        /\ clock' = now
        /\ tasks' = toggle_task(tasks, task_id, done, now)
        /\ UNCHANGED <<seq, born, viewer, pageVars, noteVars>>

NextToggle == ApplyToggle

SpecToggle == InitToggle /\ [][NextToggle]_vars

\* what a call toggle_task(task_id, done) may change between two states
ToggleFrame(task_id, done) ==
    /\ \A r \in tasks : r.id # task_id => r \in tasks'
    /\ \A r \in tasks :
          r.id = task_id =>
              \E q \in tasks' :
                  /\ q.id = r.id /\ q.user_id = r.user_id /\ q.task = r.task
                  /\ q.due_date = r.due_date /\ q.remind = r.remind
                  /\ q.created_at = r.created_at
                  /\ q.done = (IF done THEN 1 ELSE 0)
                  /\ fromisoformat(q.updated_at) = [ok |-> TRUE, t |-> clock']
    /\ {q.id : q \in tasks'} = {r.id : r \in tasks}
    /\ Cardinality(tasks') = Cardinality(tasks)
    /\ (\A r \in tasks : r.id # task_id) => tasks' = tasks
    /\ seq' = seq /\ born' = born

\* C13: a call toggle_task(id, done) sets done to the given value and
\* updatedAt to the time of the call on the row with that id, leaves that
\* row's id, owner, description, dueAt, lead time and createdAt and every
\* other row as they were, and neither adds nor removes a row; with an id no
\* row has it changes nothing
C13_ToggleChangesOnlyDoneAndUpdatedAt ==
    [][ \A task_id \in ToggleIds, done \in BOOLEAN :
            tasks' = toggle_task(tasks, task_id, done, clock')
                => ToggleFrame(task_id, done) ]_vars

\* after two calls: one row was set done by the first call, another row is
\* as add_task left it, and the second call, its id matching no row, has
\* changed no row
C13_Witness ==
    /\ clock = 2
    /\ \E r, q \in tasks :
          /\ r.done = 1 /\ r.updated_at = isoformat(1)
          /\ q.id # r.id /\ q.updated_at = q.created_at
    /\ \A r \in tasks : r.updated_at # isoformat(2)

\* ------------------------------------------------- notes and attachments

\* titles and contents of notes: plain ASCII, a Latin-1 letter, a character
\* outside Latin-1
NoteTitles == { <<"Plan">>, <<"5 ", "<U+20AC>">> }
NoteTexts == { <<"Caf", "<U+00E9>">>, <<"5 ", "<U+20AC>">> }

\* the characters 'latin-1' has no byte for
NotLatin1 == {"<U+20AC>"}

\* dest = UPLOAD_DIR / f"{secrets.token_hex(8)}_{uploaded.name}": the k-th
\* token drawn, tokens taken to differ from each other
upload_path(k, name) == <<"uploads/", Str(k), "_">> \o name

\* add_note(user_id, title, content, attachment_path) at time now
add_note(rows, s, user_id, title, content, attachment_path, now) ==
    rows \cup { [id |-> next_rowid(rows, s), user_id |-> user_id, title |-> title,
                 content |-> content, attachment |-> attachment_path,
                 created_at |-> isoformat(now), updated_at |-> isoformat(now)] }

\* update_note(note_id, title, content, attachment_path=None) at time now
update_note(rows, note_id, title, content, attachment_path, now) ==
    { IF r.id = note_id
      THEN IF attachment_path.null
           THEN [r EXCEPT !.title = title, !.content = content,
                          !.updated_at = isoformat(now)]
           ELSE [r EXCEPT !.title = title, !.content = content,
                          !.attachment = attachment_path,
                          !.updated_at = isoformat(now)]
      ELSE r : r \in rows }

\* delete_note(note_id): the files left after the unlink
delete_note_files(rows, files, note_id) ==
    LET row == {r \in rows : r.id = note_id} IN
    IF row # {} /\ \E r \in row : Truthy(r.attachment)
    THEN files \ {r.attachment.text : r \in row}        \* p.exists(): p.unlink()
    ELSE files

\* delete_note(note_id): the rows left after the DELETE
delete_note_rows(rows, note_id) == {r \in rows : r.id # note_id}

\* updated_at.split('T')[0]
RECURSIVE before_T(_)
before_T(text) ==
    IF text = <<>> \/ Head(text) = "T" THEN <<>>
    ELSE <<Head(text)>> \o before_T(Tail(text))

\* the texts notes_to_pdf gives the document for one note, in order
note_cells(n) ==
    << n.title \o <<" (updated ">> \o before_T(n.updated_at) \o <<")">>,
       n.content >>
    \o (IF Truthy(n.attachment)
        THEN << <<"Attachment: ">> \o n.attachment.text >>
        ELSE <<>>)

RECURSIVE pdf_cells(_)
pdf_cells(ns) ==
    IF ns = <<>> THEN <<>>
    ELSE note_cells(Head(ns)) \o pdf_cells(Tail(ns))

\* pdf.output(dest='S').encode('latin-1'): the document's texts as bytes, or
\* UnicodeEncodeError when a character has no Latin-1 byte
NoPdf == [state |-> "none", doc |-> <<>>]
notes_to_pdf(ns) ==
    LET cells == << <<"Notes Export">> >> \o pdf_cells(ns) IN
    IF \E i \in 1..Len(cells) : \E k \in 1..Len(cells[i]) : cells[i][k] \in NotLatin1
    THEN [state |-> "raised", doc |-> <<>>]
    ELSE [state |-> "bytes", doc |-> cells]

InitNotes ==
    /\ tasks = {} /\ seq = 0 /\ born = <<>>
    /\ clock = 0
    /\ viewer = 1
    /\ listing = <<>> /\ shown = FALSE /\ upcoming = <<>> /\ ics = NoIcs
    /\ notes = {} /\ noteSeq = 0 /\ blobs = {} /\ blobSeq = 0
    /\ pdf = NoPdf

UploadNames == { <<"a.txt">> }

\* "Save note" with a title and a content: the upload, when there is one,
\* is written under a new name, then add_note
RunAddNote ==
    \E u \in {viewer}, title \in NoteTitles, content \in NoteTexts,
       uploaded \in {NULL} \cup {Text(x) : x \in UploadNames}, now \in LaterNows :
        LET dest == upload_path(blobSeq + 1, uploaded.text)
            attach_path == IF uploaded.null THEN NULL ELSE Text(dest)
        IN  /\ clock' = now
            /\ blobs' = IF uploaded.null THEN blobs ELSE blobs \cup {dest}
            /\ blobSeq' = IF uploaded.null THEN blobSeq ELSE blobSeq + 1
            /\ notes' = add_note(notes, noteSeq, u, title, content, attach_path, now)
            /\ noteSeq' = next_rowid(notes, noteSeq)
            /\ pdf' = NoPdf
            /\ UNCHANGED <<taskVars, viewer, pageVars>>

\* "Update" of a listed note: update_note(nid, title, edited)
RunUpdateNote ==
    \E r \in notes, edited \in NoteTexts, now \in LaterNows :
        /\ clock' = now
        /\ notes' = update_note(notes, r.id, r.title, edited, NULL, now)
        /\ pdf' = NoPdf
        /\ UNCHANGED <<noteSeq, blobs, blobSeq, taskVars, viewer, pageVars>>

\* update_note(note_id, title, content, attachment_path) with the path of a
\* newly written upload (no page of the app passes one)
UpdateNoteAttachment ==
    \E r \in notes, name \in UploadNames, now \in LaterNows :
        LET dest == upload_path(blobSeq + 1, name) IN
        /\ clock' = now
        /\ blobs' = blobs \cup {dest}
        /\ blobSeq' = blobSeq + 1
        /\ notes' = update_note(notes, r.id, r.title, r.content, Text(dest), now)
        /\ pdf' = NoPdf
        /\ UNCHANGED <<noteSeq, taskVars, viewer, pageVars>>

\* "Delete" of a listed note: delete_note(nid), then st.rerun()
RunDeleteNote ==
    \E r \in notes, now \in LaterNows :
        /\ clock' = now
        /\ blobs' = delete_note_files(notes, blobs, r.id)
        /\ notes' = delete_note_rows(notes, r.id)
        /\ pdf' = NoPdf
        /\ UNCHANGED <<noteSeq, blobSeq, taskVars, viewer, pageVars>>

\* "Export this note to PDF": notes_to_pdf of the one note, with the
\* content as edited on the page
RunExportNote ==
    \E r \in notes, edited \in NoteTexts :
        /\ pdf' = notes_to_pdf(<< [r EXCEPT !.content = edited] >>)
        /\ UNCHANGED <<notes, noteSeq, blobs, blobSeq, clock, taskVars, viewer,
                       pageVars>>

NextNotes ==
    RunAddNote \/ RunUpdateNote \/ UpdateNoteAttachment \/ RunDeleteNote
        \/ RunExportNote

SpecNotes == InitNotes /\ [][NextNotes]_vars

\* C8: every file of the attachment store is the attachment of exactly one
\* note of the table (so the file of a deleted note is gone)
C8_EveryBlobOwnedByOneNote ==
    \A b \in blobs :
        Cardinality({r \in notes : ~r.attachment.null /\ r.attachment.text = b}) = 1

\* the file of a note that had one is gone once delete_note has deleted it
C8_DeleteReleasesBlob ==
    [][\A r \in notes :
          ((\A q \in notes' : q.id # r.id) /\ Truthy(r.attachment))
              => r.attachment.text \notin blobs']_vars

\* C9: an export of notes returns a document, whatever characters the
\* notes' texts hold
C9_ExportSurvivesUnsupportedText ==
    pdf.state # "none" => pdf.state = "bytes"

====
